---- MODULE Spec2Model ----
(***************************************************************************)
(* Appointment booking core of the GencFit backend: the appointment        *)
(* routes (create, field update, status update, delete), the Appointment   *)
(* schema's save-time validation and pre-save hook, and the completion     *)
(* sweeper.  Timestamps are whole hours; one unit of time is one hour.     *)
(***************************************************************************)
EXTENDS Integers, FiniteSets, Sequences, TLC

\* ---------------------------------------------------------------- bounds
MaxTime == 3          \* the clock runs over 0..MaxTime
MaxAppts == 2         \* number of appointment documents ever inserted
MaxDuration == 2      \* largest valid duration_hours a request carries
MaxInflight == 2      \* create requests in flight together in SpecRace
MaxOpen == 1          \* SpecLifecycle books while fewer than MaxOpen are stored

\* ------------------------------------------------------- program constants
Hour == 1             \* 60 * 60 * 1000 ms, expressed in the model's time unit
MinDuration == 1      \* duration_hours min
MaxDurationHours == 24 \* duration_hours max
DefaultLimit == 10    \* parseInt(req.query.limit) || 10
NoValue == 0 - 1      \* a body field that is undefined
InvalidDate == 0 - 2  \* a date string that new Date() turns into NaN

\* ------------------------------------------------------------ the actors
Users == {"u1", "u2", "admin"}

Statuses == {"pending", "confirmed", "cancelled", "completed"}
ActiveStatuses == {"pending", "confirmed"}

VenueIds == {"v1", "v2"}           \* venue documents in the store
RequestVenueIds == VenueIds \cup {"v9"}   \* "v9" names no venue

Times == 0..MaxTime
Purposes == {"training", "tournament"}   \* purposes of 5..500 characters
NotesValues == {"", "bring keys"}
NoNotes == "<undefined>"           \* body.notes is undefined

VARIABLES
  appointments,   \* the Appointment collection: a set of documents
  nextId,         \* the next fresh id (uuidv4 never repeats)
  venues,         \* venue id -> its is_active, name and capacity
  now,            \* the wall clock, new Date()
  inflight,       \* requests suspended at the await before their write
  last,           \* the last request handled and its response
  users,          \* the User collection: id -> role, is_active, and whether
                  \* the document (still) exists
  reviews,        \* the Review collection: a set of documents
  blogs,          \* the Blog collection: a set of documents
  accounts        \* the User documents created by registration

vars == <<appointments, nextId, venues, now, inflight, last, users, reviews, blogs,
          accounts>>

\* req.user.role of an authenticated caller
Role(u) == users[u].role
NonAdmins == {u \in Users : Role(u) # "admin"}

\* the caller, query and paging of a list request; this value stands for a
\* request of another kind
NoRequest ==
  [caller |-> "", q |-> [user_id |-> "", venue_id |-> "", status |-> ""],
   page |-> 0, limit |-> 0]

\* a response: status code, message, the field errors of a failed validation
\* (errors.array()), the documents returned (data) and the count reported
\* with a page (pagination.total); req keeps what a list request asked for
Response(op, code, msg) ==
  [op |-> op, code |-> code, msg |-> msg, errors |-> {}, modified |-> 0, at |-> 0,
   data |-> {}, total |-> 0, req |-> NoRequest]

\* handleValidationErrors: 400 with the errors of the failed validators
ValidationFailed(op, errors) ==
  [op |-> op, code |-> 400, msg |-> "Validation failed", errors |-> errors,
   modified |-> 0, at |-> 0, data |-> {}, total |-> 0, req |-> NoRequest]

\* ------------------------------------------------------------- the schema
\* mutant of SchemaValid: the start need not be in the future
SchemaValidAnyStart(doc, t) ==
  /\ doc.appointment_date # InvalidDate
  /\ doc.duration_hours >= MinDuration
  /\ doc.duration_hours <= MaxDurationHours
  /\ doc.status \in Statuses

\* Appointment schema validators, run by Mongoose on every save()/create().
SchemaValid(doc, t) ==
  /\ doc.appointment_date # InvalidDate
  /\ doc.appointment_date > t
  /\ doc.duration_hours >= MinDuration
  /\ doc.duration_hours <= MaxDurationHours
  /\ doc.status \in Statuses

\* pre('save'): this.updated_at = new Date()
PreSave(doc, t) == [doc EXCEPT !.updated_at = t]

\* mutant of OwnerOrAdmin: === instead of !== in the role comparison
OwnerOrNotAdmin(appointment, caller) ==
  ~(appointment.user_id # caller /\ Role(caller) = "admin")

\* the ownership check: the caller owns the appointment or is an admin
OwnerOrAdmin(appointment, caller) ==
  ~(appointment.user_id # caller /\ Role(caller) # "admin")

\* mutant of Locked: only completed appointments are refused
LockedCompletedOnly(appointment) == appointment.status = "completed"

\* PUT /:id refuses completed and cancelled appointments
Locked(appointment) == appointment.status \in {"completed", "cancelled"}

\* mutant of OwnerMayRequest: an owner may also mark the appointment completed
OwnerMayRequestCompleted(status) == status \in {"cancelled", "completed"}

\* PUT /:id/status: the one status an owner who is no admin may ask for
OwnerMayRequest(status) == status = "cancelled"

\* mutant of LeavesCompleted: the guard tests for cancelled instead
LeavesCancelled(appointment, status) ==
  appointment.status = "cancelled" /\ status # "cancelled"

\* PUT /:id/status: the transition guard
LeavesCompleted(appointment, status) ==
  appointment.status = "completed" /\ status # "completed"

\* Appointment.findByCustomId / findOne({id})
FindByCustomId(id) == {a \in appointments : a.id = id}

\* ---------------------------------------------------------- the middleware
\* mutant of ValidateAppointment: the custom future-date validator is missing
ValidateAppointmentNoFuture(venue_id, appointment_date, duration_hours, purpose, t) ==
  (IF venue_id = "" THEN {"Venue ID is required"} ELSE {})
  \cup (IF appointment_date = InvalidDate \/ appointment_date = NoValue
          THEN {"Please provide a valid date"} ELSE {})
  \cup (IF duration_hours # NoValue
            /\ ~(duration_hours >= MinDuration /\ duration_hours <= MaxDurationHours)
          THEN {"Duration must be between 1 and 24 hours"} ELSE {})
  \cup (IF purpose \notin Purposes
          THEN {"Purpose must be between 5 and 500 characters"} ELSE {})

\* validateAppointment: the messages of the validators that fail.  The date
\* must be ISO-8601 and later than now, the duration when present an integer
\* in 1..24, the purpose 5..500 characters long (the members of Purposes).
ValidateAppointment(venue_id, appointment_date, duration_hours, purpose, t) ==
  (IF venue_id = "" THEN {"Venue ID is required"} ELSE {})
  \cup (IF appointment_date = InvalidDate \/ appointment_date = NoValue
          THEN {"Please provide a valid date"} ELSE {})
  \cup (IF appointment_date # InvalidDate /\ appointment_date # NoValue
            /\ appointment_date <= t
          THEN {"Appointment date must be in the future"} ELSE {})
  \cup (IF duration_hours # NoValue
            /\ ~(duration_hours >= MinDuration /\ duration_hours <= MaxDurationHours)
          THEN {"Duration must be between 1 and 24 hours"} ELSE {})
  \cup (IF purpose \notin Purposes
          THEN {"Purpose must be between 5 and 500 characters"} ELSE {})

\* validateAppointmentStatus: body.status is one of the four statuses
ValidateAppointmentStatus(status) ==
  IF status \in Statuses
    THEN {}
    ELSE {"Status must be pending, confirmed, cancelled, or completed"}

\* ------------------------------------------------------ the conflict check
WindowMs(duration_hours) == duration_hours * Hour

\* mutant of ConflictingAppointment: $gt and $lt instead of $gte and $lte
ConflictingAppointmentStrict(appts, venue_id, dt, duration_hours) ==
  {a \in appts :
      /\ a.venue_id = venue_id
      /\ a.appointment_date > dt - WindowMs(duration_hours)
      /\ a.appointment_date < dt + WindowMs(duration_hours)
      /\ a.status \in ActiveStatuses}

ConflictingAppointment(appts, venue_id, dt, duration_hours) ==
  {a \in appts :
      /\ a.venue_id = venue_id
      /\ a.appointment_date >= dt - WindowMs(duration_hours)
      /\ a.appointment_date <= dt + WindowMs(duration_hours)
      /\ a.status \in ActiveStatuses}

NewAppointment(id, caller, venue_id, venue_name, dt, duration_hours, purpose, notes) ==
  [id |-> id, user_id |-> caller, venue_id |-> venue_id, venue_name |-> venue_name,
   appointment_date |-> dt, duration_hours |-> duration_hours,
   purpose |-> purpose, notes |-> notes, status |-> "pending",
   updated_at |-> now]

Init ==
  /\ appointments = {}
  /\ nextId = 1
  /\ venues = [v \in VenueIds |-> [is_active |-> TRUE, name |-> "Hall", capacity |-> 3]]
  /\ users = [u \in Users |->
                [role |-> IF u = "admin" THEN "admin" ELSE "user",
                 is_active |-> TRUE, exists |-> TRUE]]
  /\ reviews = {}
  /\ blogs = {}
  /\ accounts = {}
  /\ now = 0
  /\ inflight = {}
  /\ last = Response("none", 0, "")

\* the passage of time
Tick ==
  /\ now < MaxTime
  /\ now' = now + 1
  /\ UNCHANGED <<appointments, nextId, venues, users, inflight, last, reviews, blogs, accounts>>

\* mutant of VenueMissingOrInactive: is_active is not looked at
VenueMissing(venue_id) == venue_id \notin DOMAIN venues

\* the venue lookup of POST /api/appointments: !venue || venue.is_active === false
VenueMissingOrInactive(venue_id) ==
  venue_id \notin DOMAIN venues \/ venues[venue_id].is_active = FALSE

\* POST /api/appointments up to and including the conflict check: the
\* response that ends the request there, or code 0 when it goes on to
\* Appointment.create
CreateCheckResponse(venue_id, appointment_date, duration, purpose) ==
  LET duration_hours == IF duration = NoValue THEN 1 ELSE duration IN
  IF ValidateAppointment(venue_id, appointment_date, duration, purpose, now) # {}
    THEN ValidationFailed("create",
           ValidateAppointment(venue_id, appointment_date, duration, purpose, now))
  ELSE IF VenueMissingOrInactive(venue_id)
    THEN [Response("create", 404, "Venue not found or inactive")
            EXCEPT !.req.q.venue_id = venue_id]
  ELSE IF appointment_date = InvalidDate
    THEN Response("create", 400, "Invalid appointment date")
  ELSE IF appointment_date <= now
    THEN Response("create", 400, "Appointment date must be in the future")
  ELSE IF ConflictingAppointment(appointments, venue_id, appointment_date,
                                 duration_hours) # {}
    THEN Response("create", 400, "Time slot is not available")
  ELSE Response("create", 0, "")

\* mutant of CreateInsert: the insert checks for a conflict once more
CreateInsertRechecking(doc) ==
  IF ConflictingAppointment(appointments, doc.venue_id, doc.appointment_date,
                            doc.duration_hours) # {}
    THEN /\ last' = Response("create", 400, "Time slot is not available")
         /\ UNCHANGED <<appointments, nextId>>
    ELSE /\ nextId <= MaxAppts
         /\ appointments' = appointments \cup {doc}
         /\ nextId' = nextId + 1
         /\ last' = Response("create", 201, "Appointment booked successfully")

\* Appointment.create(doc) and the response that follows it
CreateInsert(doc) ==
  IF ~SchemaValid(doc, now)
    THEN /\ last' = ValidationFailed("create", {"ValidationError"})
         /\ UNCHANGED <<appointments, nextId>>
    ELSE /\ nextId <= MaxAppts
         /\ appointments' = appointments \cup {doc}
         /\ nextId' = nextId + 1
         /\ last' = Response("create", 201, "Appointment booked successfully")

\* POST /api/appointments, handled without interruption
CreateAppointment(caller, venue_id, appointment_date, duration, purpose, notes) ==
  LET duration_hours == IF duration = NoValue THEN 1 ELSE duration
      checked == CreateCheckResponse(venue_id, appointment_date, duration, purpose)
  IN
  /\ UNCHANGED <<venues, users, now, inflight, reviews, blogs, accounts>>
  /\ IF checked.code # 0
       THEN /\ last' = checked
            /\ UNCHANGED <<appointments, nextId>>
       ELSE CreateInsert(NewAppointment(nextId, caller, venue_id,
                                        venues[venue_id].name, appointment_date,
                                        duration_hours, purpose, notes))

\* POST /api/appointments as two steps, split at the await of the insert:
\* first everything up to the conflict check ...
CreateBegin(caller, venue_id, appointment_date, duration, purpose, notes) ==
  LET duration_hours == IF duration = NoValue THEN 1 ELSE duration
      checked == CreateCheckResponse(venue_id, appointment_date, duration, purpose)
  IN
  /\ UNCHANGED <<appointments, nextId, venues, users, now, reviews, blogs, accounts>>
  /\ IF checked.code # 0
       THEN /\ last' = checked
            /\ UNCHANGED inflight
       ELSE /\ Cardinality(inflight) < MaxInflight
            /\ inflight' = inflight \cup
                 {[user_id |-> caller, venue_id |-> venue_id,
                   venue_name |-> venues[venue_id].name,
                   appointment_date |-> appointment_date,
                   duration_hours |-> duration_hours,
                   purpose |-> purpose, notes |-> notes]}
            /\ UNCHANGED last

\* ... then Appointment.create for a request that passed the check
CreateEnd(r) ==
  /\ r \in inflight
  /\ inflight' = inflight \ {r}
  /\ UNCHANGED <<venues, users, now, reviews, blogs, accounts>>
  /\ CreateInsert(NewAppointment(nextId, r.user_id, r.venue_id, r.venue_name,
                                 r.appointment_date, r.duration_hours, r.purpose,
                                 r.notes))

\* mutant of PostAppointment: the document is built from the whole body, so
\* that status and user_id of the body reach the store
PostAppointmentTrustingBody(caller, body) ==
  LET duration_hours == IF body.duration = NoValue THEN 1 ELSE body.duration
      checked == CreateCheckResponse(body.venue_id, body.appointment_date,
                                     body.duration, body.purpose)
      doc == NewAppointment(nextId, caller, body.venue_id, venues[body.venue_id].name,
                            body.appointment_date, duration_hours, body.purpose,
                            body.notes)
  IN
  /\ UNCHANGED <<venues, users, now, inflight, reviews, blogs, accounts>>
  /\ IF checked.code # 0
       THEN /\ last' = checked
            /\ UNCHANGED <<appointments, nextId>>
       ELSE CreateInsert([doc EXCEPT
              !.status = IF body.status = "" THEN @ ELSE body.status,
              !.user_id = IF body.user_id = "" THEN @ ELSE body.user_id,
              !.venue_name = IF body.venue_name = "" THEN @ ELSE body.venue_name])

\* POST /api/appointments with its whole body: the handler takes venue_id,
\* appointment_date, duration_hours, purpose and notes out of the body and
\* reads nothing else of it
PostAppointment(caller, body) ==
  CreateAppointment(caller, body.venue_id, body.appointment_date, body.duration,
                    body.purpose, body.notes)

\* mutant of PastDue: every status but completed is swept
PastDueNotCompleted(a, t) == a.appointment_date < t /\ a.status # "completed"

\* mutant of PastDue: the status is not looked at
PastDueAnyStatus(a, t) == a.appointment_date < t

\* mutant of PastDue: $lte instead of $lt
PastDueOrDue(a, t) == a.appointment_date <= t /\ a.status \in ActiveStatuses

\* the filter of the sweeper's updateMany
PastDue(a, t) == a.appointment_date < t /\ a.status \in ActiveStatuses

\* registerAppointmentCron: one pass of the completion sweeper; last.modified
\* is result.modifiedCount
Sweep ==
  /\ appointments' =
       {IF PastDue(a, now)
          THEN [a EXCEPT !.status = "completed", !.updated_at = now]
          ELSE a : a \in appointments}
  /\ last' = [op |-> "sweep", code |-> 0, msg |-> "", errors |-> {},
              modified |-> Cardinality({a \in appointments : PastDue(a, now)}),
              at |-> now, data |-> {}, total |-> 0, req |-> NoRequest]
  /\ UNCHANGED <<nextId, venues, users, now, inflight, reviews, blogs, accounts>>

\* mutant of DateNotInFuture: < instead of <=
DateInPast(appointment_date, t) ==
  /\ appointment_date # NoValue
  /\ appointment_date # InvalidDate
  /\ appointment_date < t

\* PUT /:id: a date is given and new Date(appointment_date) <= new Date()
\* (false for an Invalid Date)
DateNotInFuture(appointment_date, t) ==
  /\ appointment_date # NoValue
  /\ appointment_date # InvalidDate
  /\ appointment_date <= t

\* PUT /api/appointments/:id
UpdateAppointment(caller, id, appointment_date, duration_hours, purpose, notes) ==
  LET found == FindByCustomId(id)
      appointment == CHOOSE a \in found : TRUE
      dated == IF appointment_date # NoValue
                 THEN [appointment EXCEPT !.appointment_date = appointment_date]
                 ELSE appointment
      timed == IF duration_hours # NoValue /\ duration_hours # 0
                 THEN [dated EXCEPT !.duration_hours = duration_hours]
                 ELSE dated
      purposed == IF purpose # ""
                    THEN [timed EXCEPT !.purpose = purpose]
                    ELSE timed
      edited == IF notes # NoNotes
                  THEN [purposed EXCEPT !.notes = notes]
                  ELSE purposed
  IN
  /\ UNCHANGED <<nextId, venues, users, now, inflight, reviews, blogs, accounts>>
  /\ IF found = {}
     THEN /\ last' = Response("update", 404, "Appointment not found")
          /\ UNCHANGED appointments
     ELSE IF ~OwnerOrAdmin(appointment, caller)
     THEN /\ last' = Response("update", 403, "Not authorized to update this appointment")
          /\ UNCHANGED appointments
     ELSE IF Locked(appointment)
     THEN /\ last' = Response("update", 400, "Cannot update completed or cancelled appointments")
          /\ UNCHANGED appointments
     ELSE IF DateNotInFuture(appointment_date, now)
     THEN /\ last' = Response("update", 400, "Appointment date must be in the future")
          /\ UNCHANGED appointments
     ELSE IF ~SchemaValid(edited, now)
     THEN /\ last' = Response("update", 500, "Failed to update appointment")
          /\ UNCHANGED appointments
     ELSE /\ appointments' = (appointments \ {appointment}) \cup {PreSave(edited, now)}
          /\ last' = Response("update", 200, "Appointment updated successfully")

\* mutant of UpdateStatus: the refusal to leave completed is answered after a
\* save that stamps updated_at
UpdateStatusTouching(caller, id, status) ==
  LET found == FindByCustomId(id)
      appointment == CHOOSE a \in found : TRUE
      edited == [appointment EXCEPT !.status = status]
  IN
  /\ UNCHANGED <<nextId, venues, users, now, inflight, reviews, blogs, accounts>>
  /\ IF ValidateAppointmentStatus(status) # {}
     THEN /\ last' = ValidationFailed("status", ValidateAppointmentStatus(status))
          /\ UNCHANGED appointments
     ELSE IF found = {}
     THEN /\ last' = Response("status", 404, "Appointment not found")
          /\ UNCHANGED appointments
     ELSE IF /\ Role(caller) # "admin"
             /\ appointment.user_id = caller
             /\ ~OwnerMayRequest(status)
     THEN /\ last' = Response("status", 403, "Users can only cancel appointments")
          /\ UNCHANGED appointments
     ELSE IF Role(caller) # "admin" /\ appointment.user_id # caller
     THEN /\ last' = Response("status", 403, "Not authorized to update this appointment")
          /\ UNCHANGED appointments
     ELSE IF LeavesCompleted(appointment, status)
     THEN /\ last' = Response("status", 400, "Cannot change status of completed appointments")
          /\ appointments' = (appointments \ {appointment})
                                \cup {[appointment EXCEPT !.updated_at = now]}
     ELSE IF ~SchemaValid(edited, now)
     THEN /\ last' = Response("status", 500, "Failed to update appointment status")
          /\ UNCHANGED appointments
     ELSE /\ appointments' = (appointments \ {appointment}) \cup {PreSave(edited, now)}
          /\ last' = Response("status", 200, "Appointment status updated to " \o status)

\* PUT /api/appointments/:id/status
UpdateStatus(caller, id, status) ==
  LET found == FindByCustomId(id)
      appointment == CHOOSE a \in found : TRUE
      edited == [appointment EXCEPT !.status = status]
  IN
  /\ UNCHANGED <<nextId, venues, users, now, inflight, reviews, blogs, accounts>>
  /\ IF ValidateAppointmentStatus(status) # {}
     THEN /\ last' = ValidationFailed("status", ValidateAppointmentStatus(status))
          /\ UNCHANGED appointments
     ELSE IF found = {}
     THEN /\ last' = Response("status", 404, "Appointment not found")
          /\ UNCHANGED appointments
     ELSE IF /\ Role(caller) # "admin"
             /\ appointment.user_id = caller
             /\ ~OwnerMayRequest(status)
     THEN /\ last' = Response("status", 403, "Users can only cancel appointments")
          /\ UNCHANGED appointments
     ELSE IF Role(caller) # "admin" /\ appointment.user_id # caller
     THEN /\ last' = Response("status", 403, "Not authorized to update this appointment")
          /\ UNCHANGED appointments
     ELSE IF LeavesCompleted(appointment, status)
     THEN /\ last' = Response("status", 400, "Cannot change status of completed appointments")
          /\ UNCHANGED appointments
     ELSE IF ~SchemaValid(edited, now)
     THEN /\ last' = Response("status", 500, "Failed to update appointment status")
          /\ UNCHANGED appointments
     ELSE /\ appointments' = (appointments \ {appointment}) \cup {PreSave(edited, now)}
          /\ last' = Response("status", 200, "Appointment status updated to " \o status)

\* PUT /api/appointments/:id/status as two steps, split at the await of
\* appointment.save(): first the lookup and the checks, which leave the loaded
\* document with the request ...
StatusBegin(caller, id, status) ==
  LET found == FindByCustomId(id)
      appointment == CHOOSE a \in found : TRUE
  IN
  /\ UNCHANGED <<appointments, nextId, venues, users, now, reviews, blogs, accounts>>
  /\ IF ValidateAppointmentStatus(status) # {}
     THEN /\ last' = ValidationFailed("status", ValidateAppointmentStatus(status))
          /\ UNCHANGED inflight
     ELSE IF found = {}
     THEN /\ last' = Response("status", 404, "Appointment not found")
          /\ UNCHANGED inflight
     ELSE IF /\ Role(caller) # "admin"
             /\ appointment.user_id = caller
             /\ ~OwnerMayRequest(status)
     THEN /\ last' = Response("status", 403, "Users can only cancel appointments")
          /\ UNCHANGED inflight
     ELSE IF Role(caller) # "admin" /\ appointment.user_id # caller
     THEN /\ last' = Response("status", 403, "Not authorized to update this appointment")
          /\ UNCHANGED inflight
     ELSE IF LeavesCompleted(appointment, status)
     THEN /\ last' = Response("status", 400, "Cannot change status of completed appointments")
          /\ UNCHANGED inflight
     ELSE /\ Cardinality(inflight) < MaxInflight
          /\ inflight' = inflight \cup
               {[caller |-> caller, id |-> id, status |-> status,
                 doc |-> appointment, at |-> now]}
          /\ UNCHANGED last

\* ... then save(): the validators run on the loaded document, and the write
\* sets the modified paths (status, updated_at) of the stored document
StatusEnd(r) ==
  LET edited == [r.doc EXCEPT !.status = r.status]
      stored == FindByCustomId(r.id)
  IN
  /\ r \in inflight
  /\ inflight' = inflight \ {r}
  /\ UNCHANGED <<nextId, venues, users, now, reviews, blogs, accounts>>
  /\ IF ~SchemaValid(edited, now) \/ stored = {}
     THEN /\ last' = Response("status", 500, "Failed to update appointment status")
          /\ UNCHANGED appointments
     ELSE /\ appointments' =
               {IF a.id = r.id
                  THEN [a EXCEPT !.status = IF r.status # r.doc.status
                                              THEN r.status ELSE a.status,
                                 !.updated_at = now]
                  ELSE a : a \in appointments}
          /\ last' = Response("status", 200, "Appointment status updated to " \o r.status)

\* mutant of DeleteAppointment: the record is removed before the caller is
\* checked
DeleteAppointmentBeforeCheck(caller, id) ==
  LET found == FindByCustomId(id)
      appointment == CHOOSE a \in found : TRUE
  IN
  /\ UNCHANGED <<nextId, venues, users, now, inflight, reviews, blogs, accounts>>
  /\ appointments' = {a \in appointments : a.id # id}
  /\ IF found = {}
     THEN last' = Response("delete", 404, "Appointment not found")
     ELSE IF ~OwnerOrAdmin(appointment, caller)
     THEN last' = Response("delete", 403, "Not authorized to delete this appointment")
     ELSE last' = Response("delete", 200, "Appointment deleted successfully")

\* DELETE /api/appointments/:id
DeleteAppointment(caller, id) ==
  LET found == FindByCustomId(id)
      appointment == CHOOSE a \in found : TRUE
  IN
  /\ UNCHANGED <<nextId, venues, users, now, inflight, reviews, blogs, accounts>>
  /\ IF found = {}
     THEN /\ last' = Response("delete", 404, "Appointment not found")
          /\ UNCHANGED appointments
     ELSE IF ~OwnerOrAdmin(appointment, caller)
     THEN /\ last' = Response("delete", 403, "Not authorized to delete this appointment")
          /\ UNCHANGED appointments
     ELSE /\ appointments' = {a \in appointments : a.id # id}
          /\ last' = Response("delete", 200, "Appointment deleted successfully")

\* GET /api/appointments/:id
GetAppointment(caller, id) ==
  LET found == FindByCustomId(id)
      appointment == CHOOSE a \in found : TRUE
  IN
  /\ UNCHANGED <<appointments, nextId, venues, users, now, inflight, reviews, blogs, accounts>>
  /\ IF found = {}
     THEN last' = Response("get", 404, "Appointment not found")
     ELSE IF ~OwnerOrAdmin(appointment, caller)
     THEN last' = Response("get", 403, "Not authorized to view this appointment")
     ELSE last' = [Response("get", 200, "Appointment retrieved successfully")
                     EXCEPT !.data = {appointment}]

\* mutant of ListQuery: the user_id filter of the request is honoured for
\* every caller
ListQueryTrustingFilter(caller, q) ==
  [user_id |-> IF q.user_id # "" THEN q.user_id
               ELSE IF Role(caller) = "admin" THEN "" ELSE caller,
   venue_id |-> q.venue_id,
   status |-> IF q.status \in Statuses THEN q.status ELSE ""]

\* GET /api/appointments: the query built from the caller's role and the
\* filters of the request ("" stands for an absent filter)
ListQuery(caller, q) ==
  [user_id |-> IF Role(caller) = "admin" THEN q.user_id ELSE caller,
   venue_id |-> q.venue_id,
   status |-> IF q.status \in Statuses THEN q.status ELSE ""]

\* Appointment.find(query) / countDocuments(query)
FindAppointments(query) ==
  {a \in appointments :
      /\ query.user_id = "" \/ a.user_id = query.user_id
      /\ query.venue_id = "" \/ a.venue_id = query.venue_id
      /\ query.status = "" \/ a.status = query.status}

\* .sort({appointment_date: 1}).skip(skip).limit(limit): the pages the store
\* may return; documents with equal dates come in either order
Pages(matching, skip, limit) ==
  {page \in SUBSET matching :
     \E before \in SUBSET (matching \ page) :
        LET after == matching \ (page \cup before) IN
        /\ Cardinality(before) = IF skip < Cardinality(matching)
                                   THEN skip ELSE Cardinality(matching)
        /\ Cardinality(page) = IF limit < Cardinality(matching) - Cardinality(before)
                                 THEN limit
                                 ELSE Cardinality(matching) - Cardinality(before)
        /\ \A b \in before, x \in page \cup after :
             b.appointment_date <= x.appointment_date
        /\ \A x \in page, y \in after : x.appointment_date <= y.appointment_date}

\* GET /api/appointments
ListAppointments(caller, q, page, limit) ==
  LET matching == FindAppointments(ListQuery(caller, q))
      skip == (page - 1) * limit
  IN
  /\ UNCHANGED <<appointments, nextId, venues, users, now, inflight, reviews, blogs, accounts>>
  /\ \E returned \in Pages(matching, skip, limit) :
       last' = [Response("list", 200, "Appointments retrieved successfully")
                  EXCEPT !.data = returned, !.total = Cardinality(matching),
                         !.req = [caller |-> caller, q |-> q, page |-> page,
                                  limit |-> limit]]

\* ------------------------------------------------------ the access guards
\* a JWT: the account it was issued to, whether its signature verifies, and
\* the time it expires
NoToken == [id |-> "", sig |-> "", exp |-> 0]
Tokens == [id : Users, sig : {"good", "forged"}, exp : {0, MaxTime + 1}]

\* the Authorization header: no header (scheme ""), another scheme, "Bearer"
\* alone, or "Bearer <token>"
Headers ==
  {[scheme |-> "", token |-> NoToken], [scheme |-> "Bearer", token |-> NoToken]}
  \cup [scheme : {"Bearer"}, token : Tokens]
  \cup {[scheme |-> "Basic", token |-> [id |-> "admin", sig |-> "good", exp |-> MaxTime + 1]]}

\* jwt.verify: the signature is good and the token has not expired
VerifyToken(token, t) == token.sig = "good" /\ t < token.exp

\* what a middleware hands on: a response that ends the request, or
\* (code 0) next() with req.user
Denied(code, msg) == [code |-> code, msg |-> msg, user |-> ""]
Passed(user) == [code |-> 0, msg |-> "", user |-> user]

\* protect of middleware/auth.js
Protect(h, t) ==
  IF h.scheme = "Bearer"
    THEN IF ~VerifyToken(h.token, t)
           THEN Denied(401, "Invalid authentication credentials")
         ELSE IF ~users[h.token.id].exists
           THEN Denied(401, "User not found")
         ELSE IF ~users[h.token.id].is_active
           THEN Denied(401, "Account is deactivated")
         ELSE Passed(h.token.id)
    ELSE Denied(401, "Access denied. No token provided")

\* protect of the second copy of the middleware: extractToken wants
\* "Bearer <token>", an unknown account is answered 404, and is_active is not
\* looked at
ProtectCopy(h, t) ==
  IF ~(h.scheme = "Bearer" /\ h.token # NoToken)
    THEN Denied(401, "No token provided")
  ELSE IF ~VerifyToken(h.token, t)
    THEN Denied(401, "Invalid token")
  ELSE IF ~users[h.token.id].exists
    THEN Denied(404, "User not found")
  ELSE Passed(h.token.id)

\* the two copies of protect the repository holds; a router requires
\* "../middleware/auth" and gets the one of its own tree
Guards == {"middleware/auth.js", "copy"}
Guard(g, h, t) == IF g = "middleware/auth.js" THEN Protect(h, t) ELSE ProtectCopy(h, t)

\* req.user.id as a handler reads it: middleware/auth.js loads the account
\* with select("-password"), the second copy with
\* select("_id full_name role email"), which leaves the id path out, so that
\* req.user.id is undefined ("")
ReqUserId(g, r) == IF g = "middleware/auth.js" THEN r.user ELSE ""

\* adminOnly, run after protect has passed
AdminOnly(r) ==
  IF r.user # "" /\ Role(r.user) = "admin"
    THEN r
    ELSE Denied(403, "Admin access required")

\* protect followed, on a role-gated route, by adminOnly
Access(g, h, gated) ==
  LET r == Guard(g, h, now) IN
  IF r.code # 0 THEN r
  ELSE IF gated THEN AdminOnly(r)
  ELSE r

\* validateVenue: the name is 2..200 characters long, the capacity 1..100000
ValidateVenue(body) ==
  (IF Len(body.name) >= 2 /\ Len(body.name) <= 200
     THEN {} ELSE {"Venue name must be between 2 and 200 characters"})
  \cup (IF body.capacity >= 1 /\ body.capacity <= 100000
          THEN {} ELSE {"Capacity must be between 1 and 100,000"})

\* ------------------------------------------------- the role-gated routes
\* the response of a guarded route; req.caller is the account protect
\* resolved, "" when it resolved none
AccessResponse(op, caller, code, msg) ==
  [Response(op, code, msg) EXCEPT !.req = [NoRequest EXCEPT !.caller = caller]]

\* the id Venue.create gives the next venue
NewVenueId == "v3"

\* POST /api/venues: protect, adminOnly, validateVenue, handler
CreateVenue(g, h, body) ==
  LET r == Access(g, h, TRUE)
      caller == Guard(g, h, now).user IN
  /\ NewVenueId \notin DOMAIN venues
  /\ IF r.code # 0
       THEN /\ last' = AccessResponse("createVenue", caller, r.code, r.msg)
            /\ UNCHANGED venues
     ELSE IF ValidateVenue(body) # {}
       THEN /\ last' = [ValidationFailed("createVenue", ValidateVenue(body))
                          EXCEPT !.req = [NoRequest EXCEPT !.caller = caller]]
            /\ UNCHANGED venues
     ELSE /\ venues' = [v \in DOMAIN venues \cup {NewVenueId} |->
                          IF v = NewVenueId
                            THEN [is_active |-> TRUE, name |-> body.name,
                                  capacity |-> body.capacity]
                            ELSE venues[v]]
          /\ last' = AccessResponse("createVenue", caller, 201, "Venue created successfully")
  /\ UNCHANGED <<appointments, nextId, users, now, inflight, reviews, blogs, accounts>>

\* PUT /api/venues/:id: protect, adminOnly, validateObjectId, validateVenue,
\* handler
UpdateVenue(g, h, id, body) ==
  LET r == Access(g, h, TRUE)
      caller == Guard(g, h, now).user IN
  /\ IF r.code # 0
       THEN /\ last' = AccessResponse("updateVenue", caller, r.code, r.msg)
            /\ UNCHANGED venues
     ELSE IF ValidateVenue(body) # {}
       THEN /\ last' = [ValidationFailed("updateVenue", ValidateVenue(body))
                          EXCEPT !.req = [NoRequest EXCEPT !.caller = caller]]
            /\ UNCHANGED venues
     ELSE IF id \notin DOMAIN venues
       THEN /\ last' = AccessResponse("updateVenue", caller, 404, "Venue not found")
            /\ UNCHANGED venues
     ELSE /\ venues' = [venues EXCEPT ![id].name = body.name,
                                      ![id].capacity = body.capacity]
          /\ last' = AccessResponse("updateVenue", caller, 200, "Venue updated successfully")
  /\ UNCHANGED <<appointments, nextId, users, now, inflight, reviews, blogs, accounts>>

\* mutant of DeleteVenue: the venue document is removed
DeleteVenueHard(g, h, id) ==
  LET r == Access(g, h, TRUE)
      caller == Guard(g, h, now).user IN
  /\ IF r.code # 0
       THEN /\ last' = AccessResponse("deleteVenue", caller, r.code, r.msg)
            /\ UNCHANGED venues
     ELSE IF id \notin DOMAIN venues
       THEN /\ last' = AccessResponse("deleteVenue", caller, 404, "Venue not found")
            /\ UNCHANGED venues
     ELSE /\ venues' = [v \in DOMAIN venues \ {id} |-> venues[v]]
          /\ last' = AccessResponse("deleteVenue", caller, 200, "Venue deleted successfully")
  /\ UNCHANGED <<appointments, nextId, users, now, inflight, reviews, blogs, accounts>>

\* DELETE /api/venues/:id: protect, adminOnly, validateObjectId, handler; a
\* soft delete
DeleteVenue(g, h, id) ==
  LET r == Access(g, h, TRUE)
      caller == Guard(g, h, now).user IN
  /\ IF r.code # 0
       THEN /\ last' = AccessResponse("deleteVenue", caller, r.code, r.msg)
            /\ UNCHANGED venues
     ELSE IF id \notin DOMAIN venues
       THEN /\ last' = AccessResponse("deleteVenue", caller, 404, "Venue not found")
            /\ UNCHANGED venues
     ELSE /\ venues' = [venues EXCEPT ![id].is_active = FALSE]
          /\ last' = AccessResponse("deleteVenue", caller, 200, "Venue deleted successfully")
  /\ UNCHANGED <<appointments, nextId, users, now, inflight, reviews, blogs, accounts>>

\* PUT /api/venues/:id/restore: protect, adminOnly, validateObjectId, handler.
\* The handler looks the venue up by a path "id" the venue schema does not
\* have: depending on the query strictness of the Mongoose in use the filter
\* matches no venue, or is dropped and matches any venue of the collection.
RestoreVenue(g, h, id) ==
  LET r == Access(g, h, TRUE)
      caller == Guard(g, h, now).user IN
  /\ IF r.code # 0
       THEN /\ last' = AccessResponse("restoreVenue", caller, r.code, r.msg)
            /\ UNCHANGED venues
     ELSE \/ /\ last' = AccessResponse("restoreVenue", caller, 404, "Venue not found")
             /\ UNCHANGED venues
          \/ \E found \in DOMAIN venues :
               /\ venues' = [venues EXCEPT ![found].is_active = TRUE]
               /\ last' = AccessResponse("restoreVenue", caller, 200, "Venue restored successfully")
  /\ UNCHANGED <<appointments, nextId, users, now, inflight, reviews, blogs, accounts>>

\* the two copies of the users router: the first applies adminOnly to all
\* its routes, the second has that line commented out
UserRouters == {"adminOnly", "protectOnly"}

\* PUT /api/users/:id
UpdateUser(router, g, h, id, body) ==
  LET r == Access(g, h, router = "adminOnly")
      caller == Guard(g, h, now).user IN
  /\ IF r.code # 0
       THEN /\ last' = AccessResponse("updateUser", caller, r.code, r.msg)
            /\ UNCHANGED users
     ELSE IF id \notin DOMAIN users \/ ~users[id].exists
       THEN /\ last' = AccessResponse("updateUser", caller, 404, "User not found")
            /\ UNCHANGED users
     ELSE IF ReqUserId(g, r) = id /\ body.is_active = "false"
       THEN /\ last' = AccessResponse("updateUser", caller, 400,
                                      "You cannot deactivate your own account")
            /\ UNCHANGED users
     ELSE /\ users' = [users EXCEPT
                         ![id].role = IF body.role \in {"user", "admin"}
                                        THEN body.role ELSE @,
                         ![id].is_active = IF body.is_active = "undefined" THEN @
                                           ELSE body.is_active = "true"]
          /\ last' = AccessResponse("updateUser", caller, 200, "User updated successfully")
  /\ UNCHANGED <<appointments, nextId, venues, now, inflight, reviews, blogs, accounts>>

\* PUT /api/users/:id/toggle-active
ToggleActive(router, g, h, id) ==
  LET r == Access(g, h, router = "adminOnly")
      caller == Guard(g, h, now).user IN
  /\ IF r.code # 0
       THEN /\ last' = AccessResponse("toggleActive", caller, r.code, r.msg)
            /\ UNCHANGED users
     ELSE IF id \notin DOMAIN users \/ ~users[id].exists
       THEN /\ last' = AccessResponse("toggleActive", caller, 404, "User not found")
            /\ UNCHANGED users
     ELSE IF ReqUserId(g, r) = id
       THEN /\ last' = AccessResponse("toggleActive", caller, 400,
                                      "You cannot change your own active status")
            /\ UNCHANGED users
     ELSE /\ users' = [users EXCEPT ![id].is_active = ~@]
          /\ last' = AccessResponse("toggleActive", caller, 200,
                        IF users[id].is_active THEN "User deactivated successfully"
                                               ELSE "User activated successfully")
  /\ UNCHANGED <<appointments, nextId, venues, now, inflight, reviews, blogs, accounts>>

\* DELETE /api/users/:id
DeleteUser(router, g, h, id) ==
  LET r == Access(g, h, router = "adminOnly")
      caller == Guard(g, h, now).user IN
  /\ IF r.code # 0
       THEN /\ last' = AccessResponse("deleteUser", caller, r.code, r.msg)
            /\ UNCHANGED users
     ELSE IF id \notin DOMAIN users \/ ~users[id].exists
       THEN /\ last' = AccessResponse("deleteUser", caller, 404, "User not found")
            /\ UNCHANGED users
     ELSE IF ReqUserId(g, r) = id
       THEN /\ last' = AccessResponse("deleteUser", caller, 400,
                                      "You cannot delete your own account")
            /\ UNCHANGED users
     ELSE /\ users' = [users EXCEPT ![id] = [role |-> "user", is_active |-> TRUE,
                                             exists |-> FALSE]]
          /\ last' = AccessResponse("deleteUser", caller, 200, "User deleted successfully")
  /\ UNCHANGED <<appointments, nextId, venues, now, inflight, reviews, blogs, accounts>>

\* GET /api/dashboard/stats and GET /api/contacts: protect, adminOnly, then a
\* handler that only reads
AdminRoutes == {"dashboardStats", "contacts"}
AdminRead(route, g, h) ==
  LET r == Access(g, h, TRUE)
      caller == Guard(g, h, now).user IN
  /\ last' = IF r.code # 0
               THEN AccessResponse(route, caller, r.code, r.msg)
               ELSE AccessResponse(route, caller, 200,
                      IF route = "dashboardStats"
                        THEN "Dashboard statistics retrieved successfully"
                        ELSE "Contact messages retrieved successfully")
  /\ UNCHANGED <<appointments, nextId, venues, users, now, inflight, reviews, blogs, accounts>>

\* ------------------------------------------------------------ the reviews
MaxReviews == 3

\* validateReview: entity_type is venue, blog or partner; rating is an
\* integer 1..5; the comment is 5..1000 characters long
ValidateReview(entity_type, entity_id, rating, comment) ==
  (IF entity_type \in {"venue", "blog", "partner"}
     THEN {} ELSE {"Entity type must be venue, blog, or partner"})
  \cup (IF entity_id # "" THEN {} ELSE {"Entity ID is required"})
  \cup (IF rating >= 1 /\ rating <= 5 THEN {} ELSE {"Rating must be between 1 and 5"})
  \cup (IF Len(comment) >= 5 /\ Len(comment) <= 1000
          THEN {} ELSE {"Comment must be between 5 and 1000 characters"})

\* the entity lookup of POST /api/reviews; partners are not modelled, a
\* partner id names no partner
EntityExists(entity_type, entity_id) ==
  \/ entity_type = "venue" /\ entity_id \in DOMAIN venues
  \/ entity_type = "blog" /\ \E b \in blogs : b.id = entity_id

\* entity_type with its first letter in upper case, then " not found"
NotFoundMessage(entity_type) ==
  IF entity_type = "venue" THEN "Venue not found"
  ELSE IF entity_type = "blog" THEN "Blog not found"
  ELSE "Partner not found"

\* Review.findOne({user_id, entity_type, entity_id})
ExistingReview(rs, user_id, entity_type, entity_id) ==
  {r \in rs : r.user_id = user_id /\ r.entity_type = entity_type
              /\ r.entity_id = entity_id}

\* POST /api/reviews up to the await of Review.create: validateReview, the
\* entity lookup and the lookup of an existing review
CreateReviewBegin(caller, entity_type, entity_id, rating, comment) ==
  /\ UNCHANGED <<appointments, nextId, venues, users, now, reviews, blogs, accounts>>
  /\ IF ValidateReview(entity_type, entity_id, rating, comment) # {}
       THEN /\ last' = ValidationFailed("createReview",
                         ValidateReview(entity_type, entity_id, rating, comment))
            /\ UNCHANGED inflight
     ELSE IF ~EntityExists(entity_type, entity_id)
       THEN /\ last' = Response("createReview", 404, NotFoundMessage(entity_type))
            /\ UNCHANGED inflight
     ELSE IF ExistingReview(reviews, caller, entity_type, entity_id) # {}
       THEN /\ last' = Response("createReview", 400, "You have already reviewed this item")
            /\ UNCHANGED inflight
     ELSE /\ Cardinality(inflight) < MaxInflight
          /\ inflight' = inflight \cup
               {[user_id |-> caller, entity_type |-> entity_type,
                 entity_id |-> entity_id, rating |-> rating, comment |-> comment]}
          /\ UNCHANGED last

\* mutant of CreateReviewEnd: the collection has no unique index
CreateReviewEndNoIndex(r) ==
  /\ r \in inflight
  /\ inflight' = inflight \ {r}
  /\ UNCHANGED <<appointments, venues, users, now, blogs, accounts>>
  /\ nextId <= MaxReviews
  /\ reviews' = reviews \cup {[id |-> nextId, user_id |-> r.user_id,
                               entity_type |-> r.entity_type,
                               entity_id |-> r.entity_id, rating |-> r.rating,
                               comment |-> r.comment]}
  /\ nextId' = nextId + 1
  /\ last' = Response("createReview", 201, "Review created successfully")

\* ... then Review.create: the unique index on (user_id, entity_type,
\* entity_id) refuses a second document with error 11000, which the handler
\* answers with 400
CreateReviewEnd(r) ==
  /\ r \in inflight
  /\ inflight' = inflight \ {r}
  /\ UNCHANGED <<appointments, venues, users, now, blogs, accounts>>
  /\ IF ExistingReview(reviews, r.user_id, r.entity_type, r.entity_id) # {}
       THEN /\ last' = Response("createReview", 400, "You have already reviewed this item")
            /\ UNCHANGED <<reviews, nextId>>
       ELSE /\ nextId <= MaxReviews
            /\ reviews' = reviews \cup {[id |-> nextId, user_id |-> r.user_id,
                                         entity_type |-> r.entity_type,
                                         entity_id |-> r.entity_id,
                                         rating |-> r.rating, comment |-> r.comment]}
            /\ nextId' = nextId + 1
            /\ last' = Response("createReview", 201, "Review created successfully")

\* Review.findByCustomId(id) is findOne({id: id}), and Review.deleteOne is
\* given the same filter, but the review schema has no path "id" (its
\* documents are identified by _id).  Depending on the query strictness of
\* the Mongoose in use the filter matches no review, or the unknown path is
\* dropped and the filter matches the first review of the collection.
FirstReview == {r \in reviews : \A o \in reviews : r.id <= o.id}
ReviewLookups == {{}, FirstReview}

\* PUT /api/reviews/:id
UpdateReview(caller, id, rating, comment) ==
  /\ UNCHANGED <<appointments, nextId, venues, users, now, inflight, blogs, accounts>>
  /\ IF rating = 0 \/ comment = ""
       THEN /\ last' = Response("updateReview", 400, "Rating and comment are required")
            /\ UNCHANGED reviews
     ELSE IF rating < 1 \/ rating > 5
       THEN /\ last' = Response("updateReview", 400, "Rating must be between 1 and 5")
            /\ UNCHANGED reviews
     ELSE \E found \in ReviewLookups :
       IF found = {}
         THEN /\ last' = Response("updateReview", 404, "Review not found")
              /\ UNCHANGED reviews
       ELSE LET review == CHOOSE r \in found : TRUE IN
         IF review.user_id # caller
           THEN /\ last' = Response("updateReview", 403,
                                    "Not authorized to update this review")
                /\ UNCHANGED reviews
           ELSE /\ reviews' = (reviews \ found) \cup
                                {[review EXCEPT !.rating = rating, !.comment = comment]}
                /\ last' = Response("updateReview", 200, "Review updated successfully")

\* DELETE /api/reviews/:id
DeleteReview(caller, id) ==
  /\ UNCHANGED <<appointments, nextId, venues, users, now, inflight, blogs, accounts>>
  /\ \E found \in ReviewLookups :
       IF found = {}
         THEN /\ last' = Response("deleteReview", 404, "Review not found")
              /\ UNCHANGED reviews
       ELSE LET review == CHOOSE r \in found : TRUE IN
         IF review.user_id # caller /\ Role(caller) # "admin"
           THEN /\ last' = Response("deleteReview", 403,
                                    "Not authorized to delete this review")
                /\ UNCHANGED reviews
           ELSE /\ reviews' = reviews \ found
                /\ last' = Response("deleteReview", 200, "Review deleted successfully")

\* -------------------------------------------------------------- the blogs
MaxBlogs == 2

\* the two identifiers of a User document: _id, an ObjectId, and the schema
\* path id, a uuid string
ObjectIdOf(u) == [type |-> "ObjectId", of |-> u]
UuidOf(u) == [type |-> "string", of |-> u]

\* JavaScript's x === y for these values: an ObjectId read from a document
\* is an object, which is identical to no string and to no other object
StrictEquals(x, y) == x.type = "string" /\ y.type = "string" /\ x.of = y.of

\* casting a value to the schema type ObjectId: a uuid string is not 24
\* hexadecimal characters and fails the cast
CastsToObjectId(x) == x.type = "ObjectId"

\* validateBlog: the title is 5..300 characters long, the content 50..10000
ValidateBlog(body) ==
  (IF Len(body.title) >= 5 /\ Len(body.title) <= 300
     THEN {} ELSE {"Title must be between 5 and 300 characters"})
  \cup (IF Len(body.content) >= 50 /\ Len(body.content) <= 10000
          THEN {} ELSE {"Content must be between 50 and 10,000 characters"})

\* the two copies of the blogs router: routes/blogs.js stores req.user._id
\* as author_id, the other copy req.user.id
BlogRouters == {"routes/blogs.js", "copy"}
AuthorIdOf(router, caller) ==
  IF router = "routes/blogs.js" THEN ObjectIdOf(caller) ELSE UuidOf(caller)

\* blog.author_id !== req.user.id
NotAuthor(blog, caller) == ~StrictEquals(blog.author_id, UuidOf(caller))

\* POST /api/blogs
CreateBlog(router, caller, body) ==
  /\ UNCHANGED <<appointments, venues, users, now, inflight, reviews, accounts>>
  /\ IF ValidateBlog(body) # {}
       THEN /\ last' = ValidationFailed("createBlog", ValidateBlog(body))
            /\ UNCHANGED <<blogs, nextId>>
     ELSE IF ~CastsToObjectId(AuthorIdOf(router, caller))
       THEN /\ last' = Response("createBlog", 500, "Failed to create blog")
            /\ UNCHANGED <<blogs, nextId>>
     ELSE /\ nextId <= MaxBlogs
          /\ blogs' = blogs \cup {[id |-> nextId,
                                   author_id |-> AuthorIdOf(router, caller),
                                   title |-> body.title, content |-> body.content,
                                   is_published |-> TRUE]}
          /\ nextId' = nextId + 1
          /\ last' = Response("createBlog", 201, "Blog created successfully")

\* PUT /api/blogs/:id
UpdateBlog(caller, id, body) ==
  LET found == {b \in blogs : b.id = id}
      blog == CHOOSE b \in found : TRUE
  IN
  /\ UNCHANGED <<appointments, nextId, venues, users, now, inflight, reviews, accounts>>
  /\ IF ValidateBlog(body) # {}
       THEN /\ last' = ValidationFailed("updateBlog", ValidateBlog(body))
            /\ UNCHANGED blogs
     ELSE IF found = {}
       THEN /\ last' = Response("updateBlog", 404, "Blog not found")
            /\ UNCHANGED blogs
     ELSE IF NotAuthor(blog, caller) /\ Role(caller) # "admin"
       THEN /\ last' = Response("updateBlog", 403, "Not authorized to update this blog")
            /\ UNCHANGED blogs
     ELSE /\ blogs' = (blogs \ found)
                        \cup {[blog EXCEPT !.title = body.title,
                                           !.content = body.content]}
          /\ last' = Response("updateBlog", 200, "Blog updated successfully")

\* DELETE /api/blogs/:id, a soft delete
DeleteBlog(caller, id) ==
  LET found == {b \in blogs : b.id = id}
      blog == CHOOSE b \in found : TRUE
  IN
  /\ UNCHANGED <<appointments, nextId, venues, users, now, inflight, reviews, accounts>>
  /\ IF found = {}
       THEN /\ last' = Response("deleteBlog", 404, "Blog not found")
            /\ UNCHANGED blogs
     ELSE IF NotAuthor(blog, caller) /\ Role(caller) # "admin"
       THEN /\ last' = Response("deleteBlog", 403, "Not authorized to delete this blog")
            /\ UNCHANGED blogs
     ELSE /\ blogs' = (blogs \ found) \cup {[blog EXCEPT !.is_published = FALSE]}
          /\ last' = Response("deleteBlog", 200, "Blog deleted successfully")

\* ------------------------------------------------------- the registration
MaxAccounts == 2
MinPassword == 6

\* the schema's lowercase: true, also applied to the filter of findOne
Lowercase(email) == IF email = "A@x.io" THEN "a@x.io" ELSE email

\* validateUserRegistration: a valid email and a password of 6 or more
\* characters
ValidateUserRegistration(body) ==
  (IF body.email # "" THEN {} ELSE {"Please provide a valid email"})
  \cup (IF Len(body.password) >= MinPassword
          THEN {} ELSE {"Password must be at least 6 characters long"})

\* the two copies of the auth router
AuthRouters == {"validated", "routes/auth.js"}

\* User.findOne({email})
ExistingUser(email) == {a \in accounts : a.email = Lowercase(email)}

\* POST /api/auth/register up to the await of the insert
RegisterBegin(router, body) ==
  /\ UNCHANGED <<appointments, nextId, venues, users, now, reviews, blogs, accounts>>
  /\ IF router = "validated" /\ ValidateUserRegistration(body) # {}
       THEN /\ last' = ValidationFailed("register", ValidateUserRegistration(body))
            /\ UNCHANGED inflight
     ELSE IF router = "routes/auth.js" /\ (body.email = "" \/ body.password = "")
       THEN /\ last' = Response("register", 400, "Email, password and full_name required")
            /\ UNCHANGED inflight
     ELSE IF ExistingUser(body.email) # {}
       THEN /\ last' = Response("register", 400,
                         IF router = "validated" THEN "Email already registered"
                                                 ELSE "User already exists")
            /\ UNCHANGED inflight
     ELSE /\ Cardinality(inflight) < MaxInflight
          /\ inflight' = inflight \cup
               {[router |-> router, email |-> body.email, password |-> body.password]}
          /\ UNCHANGED last

\* ... then User.create / newUser.save(): the schema's validators, then the
\* unique index on email; every error is caught and answered 500
RegisterEnd(r) ==
  /\ r \in inflight
  /\ inflight' = inflight \ {r}
  /\ UNCHANGED <<appointments, venues, users, now, reviews, blogs>>
  /\ IF Len(r.password) < MinPassword \/ ExistingUser(r.email) # {}
       THEN /\ last' = Response("register", 500,
                         IF r.router = "validated" THEN "Registration failed"
                                                   ELSE "Server error")
            /\ UNCHANGED <<accounts, nextId>>
       ELSE /\ nextId <= MaxAccounts
            /\ accounts' = accounts \cup
                 {[id |-> nextId, email |-> Lowercase(r.email), role |-> "user",
                   is_active |-> TRUE]}
            /\ nextId' = nextId + 1
            /\ last' = Response("register", 201,
                          IF r.router = "validated" THEN "User registered successfully"
                                                    ELSE "")

\* ------------------------------------------------- the requests considered
AppointmentIds == 1..MaxAppts

\* bodies of POST /api/appointments that have every field in range (the
\* start may still lie in the past)
WellFormedBodies(venueIds, purposes, notesValues) ==
  [venue_id : venueIds, appointment_date : Times,
   duration : (1..MaxDuration) \cup {NoValue}, purpose : purposes,
   notes : notesValues]

\* one body for each way of failing validateAppointment
MalformedBodies ==
  {[venue_id |-> v, appointment_date |-> InvalidDate, duration |-> NoValue,
    purpose |-> "training", notes |-> ""] : v \in {"v1", "v9"}}
  \cup
  {[venue_id |-> "v1", appointment_date |-> MaxTime, duration |-> 25,
    purpose |-> "training", notes |-> ""],
   [venue_id |-> "v1", appointment_date |-> MaxTime, duration |-> 1,
    purpose |-> "gym", notes |-> ""],
   [venue_id |-> "", appointment_date |-> MaxTime, duration |-> 1,
    purpose |-> "training", notes |-> ""]}

\* bodies of PUT /api/appointments/:id: a new date, a new duration, both, a
\* new purpose or new notes
UpdateBodies(purposes, notesValues) ==
  [appointment_date : Times \cup {InvalidDate}, duration_hours : {NoValue},
   purpose : {""}, notes : {NoNotes}]
  \cup
  [appointment_date : {NoValue, MaxTime}, duration_hours : {1, MaxDuration, 25},
   purpose : {""}, notes : {NoNotes}]
  \cup
  [appointment_date : {NoValue}, duration_hours : {NoValue},
   purpose : purposes \cup {""}, notes : notesValues]

BookingBodies == WellFormedBodies({"v1", "v9"}, {"training"}, {""}) \cup MalformedBodies
BookingUpdates == UpdateBodies({"training"}, {""})
SlotBodies == {b \in WellFormedBodies(VenueIds, {"training"}, {""}) : b.duration # NoValue}
LifecycleBodies == WellFormedBodies({"v1", "v9"}, Purposes, NotesValues) \cup MalformedBodies
LifecycleUpdates == UpdateBodies(Purposes, NotesValues)
RaceBodies == {b \in WellFormedBodies({"v1"}, {"training"}, {""}) : b.duration # NoValue}

Create(callers, bodies) ==
  \E caller \in callers, b \in bodies :
    CreateAppointment(caller, b.venue_id, b.appointment_date, b.duration,
                      b.purpose, b.notes)

Update(callers, bodies) ==
  \E caller \in callers, id \in AppointmentIds, b \in bodies :
       UpdateAppointment(caller, id, b.appointment_date, b.duration_hours,
                         b.purpose, b.notes)

Status(callers) ==
  \E caller \in callers, id \in AppointmentIds,
     status \in Statuses \cup {"archived"} :
       UpdateStatus(caller, id, status)

Delete(callers) ==
  \E caller \in callers, id \in AppointmentIds : DeleteAppointment(caller, id)

\* queries of GET /api/appointments: a user_id filter, a venue filter or a
\* status filter ("archived" is no status and is ignored)
ListQueries ==
  [user_id : {"", "u1", "u2"}, venue_id : {""}, status : {""}]
  \cup [user_id : {"", "u2"}, venue_id : {"v1"}, status : {"", "pending", "archived"}]

Get(callers) ==
  \E caller \in callers, id \in AppointmentIds : GetAppointment(caller, id)

List(callers) ==
  \E caller \in callers, q \in ListQueries, page \in {1, 2},
     limit \in {1, DefaultLimit} :
       ListAppointments(caller, q, page, limit)

\* Bookings at one venue: u1 books; u1 and the admin send the other
\* requests; up to MaxAppts appointments are stored together.
Next ==
  \/ Tick
  \/ Create({"u1"}, BookingBodies)
  \/ Update({"u1", "admin"}, BookingUpdates)
  \/ Status({"u1", "admin"})
  \/ Delete({"u1", "admin"})
  \/ Sweep

Spec == Init /\ [][Next]_vars

\* Slots of two venues: u1 books at either venue and the admin sets statuses.
NextSlots ==
  \/ Tick
  \/ Create({"u1"}, SlotBodies)
  \/ Status({"admin"})

SpecSlots == Init /\ [][NextSlots]_vars

\* Life of one appointment: every user books, with every purpose and notes,
\* while fewer than MaxOpen appointments are stored; every user sends the
\* other requests.
NextLifecycle ==
  \/ Tick
  \/ (Cardinality(appointments) < MaxOpen /\ Create(Users, LifecycleBodies))
  \/ Update(Users, LifecycleUpdates)
  \/ Status(Users)
  \/ Delete(Users)
  \/ Sweep

SpecLifecycle == Init /\ [][NextLifecycle]_vars

\* Concurrent bookings: two users' create requests for one venue interleave
\* at the await between the conflict check and the insert.
NextRace ==
  \/ Tick
  \/ \E caller \in {"u1", "u2"}, b \in RaceBodies :
       CreateBegin(caller, b.venue_id, b.appointment_date, b.duration,
                   b.purpose, b.notes)
  \/ \E r \in inflight : CreateEnd(r)

SpecRace == Init /\ [][NextRace]_vars

\* The sweeper against status updates: u1 books while fewer than MaxOpen
\* appointments are stored; u1 and the admin send status updates that
\* interleave with sweeper passes at the await of save().
NextSweepRace ==
  \/ Tick
  \/ (Cardinality(appointments) < MaxOpen /\ Create({"u1"}, RaceBodies))
  \/ \E caller \in {"u1", "admin"}, id \in AppointmentIds,
        status \in {"cancelled", "confirmed"} :
       StatusBegin(caller, id, status)
  \/ \E r \in inflight : StatusEnd(r)
  \/ Sweep

SpecSweepRace == Init /\ [][NextSweepRace]_vars

\* The process that server.js starts: the routers are mounted and the clock
\* runs.  registerAppointmentCron is defined but never called: server.js does
\* not require it, and routes/appointments replaces its export by the router
\* (module.exports = router), so no sweeper pass is ever scheduled.  Time
\* passes whatever the clients do; no request is ever bound to arrive.
NextServer ==
  \/ Tick
  \/ Create({"u1"}, RaceBodies)
  \/ Status({"u1", "admin"})
  \/ Delete({"u1"})

SpecServer == Init /\ [][NextServer]_vars /\ WF_vars(Tick)

\* Who may see and change what: u1 and u2 book at either venue; every user
\* reads, lists, edits, cancels and deletes.
OwnershipBodies == {b \in SlotBodies : b.duration = 1 /\ b.appointment_date > 0}
OwnershipUpdates == {b \in BookingUpdates : b.duration_hours = NoValue}

NextOwnership ==
  \/ Create({"u1", "u2"}, OwnershipBodies)
  \/ Get(Users)
  \/ List(Users)
  \/ Update(Users, OwnershipUpdates)
  \/ \E caller \in Users, id \in AppointmentIds : UpdateStatus(caller, id, "cancelled")
  \/ Delete(Users)

SpecOwnership == Init /\ [][NextOwnership]_vars

\* Access control: callers with no header, a forged token, an expired token
\* and a good token, against both copies of protect, on the role-gated routes.
Bearer(id, sig, exp) ==
  [scheme |-> "Bearer", token |-> [id |-> id, sig |-> sig, exp |-> exp]]
AccessHeaders ==
  {[scheme |-> "", token |-> NoToken],
   Bearer("admin", "forged", MaxTime + 1), Bearer("u1", "good", 0)}
  \cup {Bearer(u, "good", MaxTime + 1) : u \in Users}
VenueBodies == {[name |-> "G", capacity |-> 0], [name |-> "Gym", capacity |-> 5]}
UserBodies == {[role |-> "admin", is_active |-> "undefined"],
               [role |-> "", is_active |-> "false"],
               [role |-> "root", is_active |-> "true"]}
UserTargets == {"u1", "u2", "u9"}   \* "u9" names no account

NextAccess ==
  \/ \E route \in AdminRoutes, g \in Guards, h \in AccessHeaders :
       AdminRead(route, g, h)
  \/ \E g \in Guards, h \in AccessHeaders, body \in VenueBodies :
       CreateVenue(g, h, body)
  \/ \E g \in Guards, h \in AccessHeaders, body \in VenueBodies :
       UpdateVenue(g, h, "v1", body)
  \/ \E g \in Guards, h \in AccessHeaders, id \in {"v1", "v9"} :
       DeleteVenue(g, h, id)
  \/ \E g \in Guards, h \in AccessHeaders : RestoreVenue(g, h, "v1")
  \/ \E router \in UserRouters, g \in Guards, h \in AccessHeaders,
        id \in {"u1", "u2"}, body \in UserBodies :
       UpdateUser(router, g, h, id, body)
  \/ \E router \in UserRouters, g \in Guards, h \in AccessHeaders, id \in Users :
       ToggleActive(router, g, h, id)
  \/ \E router \in UserRouters, g \in Guards, h \in AccessHeaders,
        id \in UserTargets : DeleteUser(router, g, h, id)

SpecAccess == Init /\ [][NextAccess]_vars

\* Venues going out of service: u1 books at v1 or at a venue that does not
\* exist, with the insert as a step of its own, while the admin deactivates
\* and restores v1.
VenueCheckBodies ==
  {b \in BookingBodies : b.duration = 1 \/ b.appointment_date = InvalidDate}
AdminHeader == Bearer("admin", "good", MaxTime + 1)

NextVenues ==
  \/ Tick
  \/ \E b \in VenueCheckBodies :
       CreateBegin("u1", b.venue_id, b.appointment_date, b.duration, b.purpose, b.notes)
  \/ \E r \in inflight : CreateEnd(r)
  \/ DeleteVenue("middleware/auth.js", AdminHeader, "v1")
  \/ RestoreVenue("middleware/auth.js", AdminHeader, "v1")

SpecVenues == Init /\ [][NextVenues]_vars

\* Reviews: u1 and u2 review venue v1 or a venue that does not exist, with
\* the insert as a step of its own; every user sends updates and deletes.
ReviewBodies ==
  [entity_type : {"venue"}, entity_id : {"v1", "v9"}, rating : {4, 5},
   comment : {"great"}]
  \cup {[entity_type |-> "venue", entity_id |-> "v1", rating |-> 9, comment |-> "great"],
        [entity_type |-> "hall", entity_id |-> "v1", rating |-> 5, comment |-> "great"]}
ReviewUpdates == [rating : {0, 3, 9}, comment : {"fine!"}]
ReviewIds == 1..MaxReviews

NextReviews ==
  \/ \E caller \in {"u1", "u2"}, b \in ReviewBodies :
       CreateReviewBegin(caller, b.entity_type, b.entity_id, b.rating, b.comment)
  \/ \E r \in inflight : CreateReviewEnd(r)
  \/ \E caller \in Users, id \in ReviewIds, b \in ReviewUpdates :
       UpdateReview(caller, id, b.rating, b.comment)
  \/ \E caller \in Users, id \in ReviewIds : DeleteReview(caller, id)

SpecReviews == Init /\ [][NextReviews]_vars

\* Blog posts: u1 and u2 write posts through either copy of the router;
\* every user sends updates and soft deletes.
LongContent == "A post with more than fifty characters of content, as required."
BlogBodies == [title : {"Hi", "Hello", "Howdy"}, content : {"short", LongContent}]
BlogIds == 1..MaxBlogs

NextBlogs ==
  \/ \E router \in BlogRouters, caller \in {"u1", "u2"}, body \in BlogBodies :
       CreateBlog(router, caller, body)
  \/ \E caller \in Users, id \in BlogIds, body \in BlogBodies :
       UpdateBlog(caller, id, body)
  \/ \E caller \in Users, id \in BlogIds : DeleteBlog(caller, id)

SpecBlogs == Init /\ [][NextBlogs]_vars

\* Registration through either copy of the auth router, with the insert as
\* a step of its own.
RegisterBodies == [email : {"", "a@x.io", "A@x.io", "b@x.io"},
                   password : {"", "pw", "secret1", "secret2"}]

NextRegister ==
  \/ \E router \in AuthRouters, body \in RegisterBodies : RegisterBegin(router, body)
  \/ \E r \in inflight : RegisterEnd(r)

SpecRegister == Init /\ [][NextRegister]_vars

\* Bodies with fields the handler does not take: u1 books at v1 with a
\* status, a user_id and a venue_name in the body ("" stands for a field the
\* body does not have), while the admin renames the venue.
PostBodies ==
  {[venue_id |-> b.venue_id, appointment_date |-> b.appointment_date,
    duration |-> b.duration, purpose |-> b.purpose, notes |-> b.notes,
    status |-> x.status, user_id |-> x.user_id, venue_name |-> x.venue_name] :
     b \in {c \in BookingBodies : c.appointment_date # 0},
     x \in {[status |-> "", user_id |-> "", venue_name |-> ""],
            [status |-> "confirmed", user_id |-> "", venue_name |-> ""],
            [status |-> "completed", user_id |-> "u2", venue_name |-> "Palace"]}}

NextPost ==
  \/ Tick
  \/ \E caller \in {"u1", "u2"}, body \in PostBodies : PostAppointment(caller, body)
  \/ UpdateVenue("middleware/auth.js", AdminHeader, "v1", [name |-> "Gym", capacity |-> 5])
  \/ Delete({"u1", "u2"})

SpecPost == Init /\ [][NextPost]_vars

\* The admin and one user manage accounts, their own included. is_active of
\* the body is a JSON value: absent, true, false, or the string "false"
\* ("string false"), which is not === false and is cast to false on assignment.
SelfBodies == UserBodies \cup {[role |-> "", is_active |-> "string false"]}
SelfHeaders == {AdminHeader, Bearer("u1", "good", MaxTime + 1)}
SelfTargets == {"admin", "u1"}

NextSelf ==
  \/ \E router \in UserRouters, g \in Guards, h \in SelfHeaders,
        id \in SelfTargets, body \in SelfBodies :
       UpdateUser(router, g, h, id, body)
  \/ \E router \in UserRouters, g \in Guards, h \in SelfHeaders, id \in SelfTargets :
       ToggleActive(router, g, h, id)
  \/ \E router \in UserRouters, g \in Guards, h \in SelfHeaders, id \in SelfTargets :
       DeleteUser(router, g, h, id)

SpecSelf == Init /\ [][NextSelf]_vars

\* The appointment routes behind protect of middleware/auth.js
\* (router.post("/", protect, ...) and the like): a request the guard turns
\* away is answered by the guard and never reaches the handler; the handler
\* of a request that passes runs for the account of the token.
Rejected(h, op) ==
  /\ last' = Response(op, Protect(h, now).code, Protect(h, now).msg)
  /\ UNCHANGED <<appointments, nextId, venues, users, now, inflight,
                 reviews, blogs, accounts>>

ProtectedCreate(h, b) ==
  IF Protect(h, now).code # 0
    THEN Rejected(h, "create")
    ELSE CreateAppointment(Protect(h, now).user, b.venue_id, b.appointment_date,
                           b.duration, b.purpose, b.notes)

ProtectedUpdate(h, id, b) ==
  IF Protect(h, now).code # 0
    THEN Rejected(h, "update")
    ELSE UpdateAppointment(Protect(h, now).user, id, b.appointment_date,
                           b.duration_hours, b.purpose, b.notes)

ProtectedStatus(h, id, status) ==
  IF Protect(h, now).code # 0
    THEN Rejected(h, "status")
    ELSE UpdateStatus(Protect(h, now).user, id, status)

ProtectedDelete(h, id) ==
  IF Protect(h, now).code # 0
    THEN Rejected(h, "delete")
    ELSE DeleteAppointment(Protect(h, now).user, id)

\* no header, an expired token, and good tokens of a user and of the admin
ProtectedHeaders ==
  {[scheme |-> "", token |-> NoToken], Bearer("u1", "good", 0),
   Bearer("u1", "good", MaxTime + 1), Bearer("u2", "good", MaxTime + 1), AdminHeader}
ProtectedStatuses == {"confirmed", "cancelled", "completed", "archived"}

NextProtected ==
  \/ Tick
  \/ \E h \in ProtectedHeaders, b \in BookingBodies :
       Cardinality(appointments) < MaxOpen /\ ProtectedCreate(h, b)
  \/ \E h \in ProtectedHeaders, id \in AppointmentIds, b \in BookingUpdates :
       ProtectedUpdate(h, id, b)
  \/ \E h \in ProtectedHeaders, id \in AppointmentIds, status \in ProtectedStatuses :
       ProtectedStatus(h, id, status)
  \/ \E h \in ProtectedHeaders, id \in AppointmentIds : ProtectedDelete(h, id)

SpecProtected == Init /\ [][NextProtected]_vars

\* ================================================================ claims

\* the windows [start - duration, start + duration] of two appointments
\* share more than an end point
WindowsOverlap(a, b) ==
  /\ a.appointment_date - a.duration_hours * Hour
       < b.appointment_date + b.duration_hours * Hour
  /\ b.appointment_date - b.duration_hours * Hour
       < a.appointment_date + a.duration_hours * Hour

\* C1: no two distinct pending or confirmed appointments of one venue have
\* overlapping windows [start - duration_hours, start + duration_hours].
C1_NoOverlappingActive ==
  \A a \in appointments : \A b \in appointments :
    (/\ a.id # b.id
     /\ a.venue_id = b.venue_id
     /\ a.status \in ActiveStatuses
     /\ b.status \in ActiveStatuses)
    => ~WindowsOverlap(a, b)

\* a body that passes validateAppointment and names an active venue and a
\* start in the future
Bookable(b) ==
  /\ b.appointment_date # InvalidDate
  /\ b.appointment_date > now
  /\ b.duration = NoValue \/ b.duration \in 1..24
  /\ b.purpose \in Purposes
  /\ b.venue_id \in VenueIds
  /\ venues[b.venue_id].is_active

\* some pending or confirmed appointment of the venue starts within
\* [S - D hours, S + D hours]
SlotTaken(b) ==
  LET D == IF b.duration = NoValue THEN 1 ELSE b.duration IN
  \E a \in appointments :
    /\ a.venue_id = b.venue_id
    /\ a.status = "pending" \/ a.status = "confirmed"
    /\ b.appointment_date - D <= a.appointment_date
    /\ a.appointment_date <= b.appointment_date + D

\* C2: a bookable POST /appointments is answered 400 "slot unavailable" and
\* stores nothing exactly when some pending or confirmed appointment of the
\* venue starts within [S - D, S + D]; otherwise it stores one new
\* appointment and is answered 201.
C2_CreateRejectsExactlyTakenSlots ==
  [][last'.op = "create" =>
      \A b \in SlotBodies :
        Bookable(b) =>
          \/ IF SlotTaken(b)
               THEN /\ last'.code = 400
                    /\ last'.msg = "Time slot is not available"
                    /\ appointments' = appointments
               ELSE /\ last'.code = 201
                    /\ Cardinality(appointments' \ appointments) = 1
                    /\ appointments \subseteq appointments'
                    /\ \A a \in appointments' \ appointments :
                         /\ a.venue_id = b.venue_id
                         /\ a.appointment_date = b.appointment_date
                         /\ a.status = "pending"
          \/ ~CreateAppointment("u1", b.venue_id, b.appointment_date, b.duration,
                                b.purpose, b.notes)]_vars

\* C2 witness: a booking was refused as "slot unavailable" although the other
\* venue and a cancelled appointment of the same venue were in the store
C2_Witness ==
  /\ last.op = "create"
  /\ last.msg = "Time slot is not available"
  /\ \E a \in appointments : a.status \in ActiveStatuses /\ a.venue_id = "v1"
  /\ \E a \in appointments : a.venue_id = "v2"

C4_InsertDoesNotRecheck ==
  [][\A r \in inflight :
       (CreateEnd(r) /\ r.appointment_date > now)
       => /\ last'.code = 201
          /\ \E a \in appointments' \ appointments :
               /\ a.venue_id = r.venue_id
               /\ a.appointment_date = r.appointment_date
               /\ a.status = "pending"]_vars

\* C4 witness: two pending appointments of one venue with the same start
C4_Witness ==
  \E a \in appointments : \E b \in appointments :
    /\ a.id # b.id
    /\ a.venue_id = b.venue_id
    /\ a.appointment_date = b.appointment_date
    /\ a.status = "pending" /\ b.status = "pending"

\* C5: a status update by a non-admin caller is answered 403 and changes
\* nothing when the caller owns the appointment and asks for anything but
\* cancelled, and for every requested status when the caller does not own it.
C5_NonAdminMayOnlyCancelOwn ==
  [][last'.op = "status" =>
      \/ last'.code = 403 /\ appointments' = appointments
      \/ \A caller \in NonAdmins, id \in AppointmentIds, status \in Statuses :
           (\E a \in appointments :
               /\ a.id = id
               /\ a.user_id # caller \/ status # "cancelled")
           => ~UpdateStatus(caller, id, status)]_vars

\* C5 witness: an owner's request for another status than cancelled was
\* refused and the appointment is still pending
C5_Witness ==
  /\ last.op = "status"
  /\ last.code = 403
  /\ last.msg = "Users can only cancel appointments"
  /\ \E a \in appointments : a.status = "pending" /\ a.user_id \in NonAdmins

\* C6 as claimed: every status update of a completed appointment, by any
\* caller and for any requested status, is rejected and leaves the record
\* unchanged.
C6_CompletedRejectsEveryStatusUpdate ==
  [][last'.op = "status" =>
      \/ last'.code # 200 /\ appointments' = appointments
      \/ \A caller \in Users, id \in AppointmentIds, status \in Statuses :
           (\E a \in appointments : a.id = id /\ a.status = "completed")
           => ~UpdateStatus(caller, id, status)]_vars

\* C6 as amended: a status update of a completed appointment that asks for
\* another status is rejected (400 or 403) and changes nothing; a request for
\* completed is accepted only from an admin while the start is in the future,
\* and then changes nothing but the update timestamp.
C6_CompletedKeepsStatus ==
  [][last'.op = "status" =>
      \A caller \in Users, id \in AppointmentIds, status \in Statuses :
        \A a \in appointments :
          (a.id = id /\ a.status = "completed")
          => \/ /\ status # "completed"
                /\ last'.code \in {400, 403}
                /\ appointments' = appointments
             \/ /\ status = "completed"
                /\ last'.code # 200
                /\ appointments' = appointments
             \/ /\ status = "completed"
                /\ last'.code = 200
                /\ Role(caller) = "admin"
                /\ a.appointment_date > now
                /\ appointments' =
                     (appointments \ {a}) \cup {[a EXCEPT !.updated_at = now]}
             \/ ~UpdateStatus(caller, id, status)]_vars

\* C6 witness: a request to move a completed appointment was refused
C6_Witness ==
  /\ last.op = "status"
  /\ last.code = 400
  /\ last.msg = "Cannot change status of completed appointments"
  /\ \E a \in appointments : a.status = "completed"

\* C7 as claimed: once cancelled, an appointment that is still stored stays
\* cancelled.
C7_CancelledIsTerminal ==
  [][\A a \in appointments :
       a.status = "cancelled"
       => \A b \in appointments' : b.id = a.id => b.status = "cancelled"]_vars

\* C7 as amended: a cancelled appointment changes status only through a
\* successful status update by an admin; the sweeper and the other callers
\* never change it, and an owner who asks for another status is answered 403.
C7_OnlyAdminReopensCancelled ==
  [][/\ \A a \in appointments :
          (/\ a.status = "cancelled"
           /\ \E b \in appointments' : b.id = a.id /\ b.status # "cancelled")
          => /\ last'.op = "status"
             /\ last'.code = 200
             /\ \E status \in Statuses : UpdateStatus("admin", a.id, status)
     /\ last'.op = "status" =>
          \/ last'.code = 403 /\ appointments' = appointments
          \/ \A caller \in NonAdmins, id \in AppointmentIds,
                status \in Statuses \ {"cancelled"} :
               (\E a \in appointments : a.id = id /\ a.status = "cancelled")
               => ~UpdateStatus(caller, id, status)]_vars

\* C7 witness: the owner of a cancelled appointment asked for another status
\* and was refused
C7_Witness ==
  /\ last.op = "status"
  /\ last.code = 403
  /\ last.msg = "Users can only cancel appointments"
  /\ \E a \in appointments : a.status = "cancelled" /\ a.user_id \in NonAdmins
  /\ \A a \in appointments : a.status = "cancelled"

\* C8: a field update of a completed or cancelled appointment by its owner or
\* an admin is answered 400 and changes no field of any record.
C8_LockedRejectsFieldUpdate ==
  [][last'.op = "update" =>
      \/ last'.code = 400 /\ appointments' = appointments
      \/ \A a \in appointments :
           a.status \in {"completed", "cancelled"}
           => \A caller \in {u \in Users : a.user_id = u \/ Role(u) = "admin"},
                 b \in LifecycleUpdates :
                ~UpdateAppointment(caller, a.id, b.appointment_date,
                                   b.duration_hours, b.purpose, b.notes)]_vars

\* C8 witness: a field update of a cancelled appointment was refused
C8_Witness ==
  /\ last.op = "update"
  /\ last.code = 400
  /\ last.msg = "Cannot update completed or cancelled appointments"
  /\ \E a \in appointments : a.status = "cancelled"

\* C9: a status update by an admin of a stored appointment that is not
\* completed succeeds for each of the four statuses, and the stored status
\* then is the requested one.
C9_AdminSetsAnyStatus ==
  [][last'.op = "status" =>
      \A a \in appointments :
        a.status # "completed"
        => \A status \in Statuses :
             \/ /\ last'.code = 200
                /\ \E b \in appointments' : b.id = a.id /\ b.status = status
             \/ ~UpdateStatus("admin", a.id, status)]_vars

\* C10: a sweeper pass that follows another pass, with no request in between
\* and no appointment having become past-due since, changes no appointment.
C10_SweepIdempotent ==
  [][(/\ last.op = "sweep"
      /\ last'.op = "sweep"
      /\ ~\E a \in appointments :
            /\ a.status \in ActiveStatuses
            /\ last.at <= a.appointment_date
            /\ a.appointment_date < now)
     => /\ appointments' = appointments
        /\ last' # last => last'.modified = 0]_vars

\* C10 witness: a pass changed nothing at a later time than the pass that
\* completed a past-due appointment (only the sweeper stores an update
\* timestamp later than the start)
C10_Witness ==
  /\ last.op = "sweep"
  /\ last.modified = 0
  /\ \E a \in appointments :
       /\ a.status = "completed"
       /\ a.appointment_date < a.updated_at
       /\ a.updated_at < last.at

\* C11: one sweeper pass at time now completes exactly the pending or
\* confirmed appointments that start before now, stamping their update
\* timestamp with now; it changes no other appointment and no other field, and
\* it neither creates nor deletes a record.
C11_SweepFrame ==
  [][Sweep =>
      /\ {b.id : b \in appointments'} = {a.id : a \in appointments}
      /\ Cardinality(appointments') = Cardinality(appointments)
      /\ \A a \in appointments :
           \E b \in appointments' :
             /\ b.id = a.id
             /\ b.user_id = a.user_id /\ b.venue_id = a.venue_id
             /\ b.appointment_date = a.appointment_date
             /\ b.duration_hours = a.duration_hours
             /\ b.purpose = a.purpose /\ b.notes = a.notes
             /\ IF a.appointment_date < now /\ a.status \in {"pending", "confirmed"}
                  THEN b.status = "completed" /\ b.updated_at = now
                  ELSE b.status = a.status /\ b.updated_at = a.updated_at]_vars

\* C11 witness: a pass completed one appointment and left another, which
\* has not started yet, pending
C11_Witness ==
  /\ last.op = "sweep"
  /\ last.modified = 1
  /\ \E a \in appointments, b \in appointments :
       /\ a.status = "completed" /\ a.updated_at = last.at
       /\ a.appointment_date < last.at
       /\ b.status = "pending" /\ b.appointment_date >= last.at
       /\ now = last.at

\* C12: the sweeper completes a pending or confirmed appointment only when
\* now is later than start + duration_hours.
C12_SweepAfterWindowElapsed ==
  [][Sweep =>
      \A a \in appointments :
        (/\ a.status \in {"pending", "confirmed"}
         /\ \E b \in appointments' : b.id = a.id /\ b.status = "completed")
        => now > a.appointment_date + a.duration_hours * Hour]_vars

\* C13: when an owner's cancellation of a past-due pending or confirmed
\* appointment interleaves with a sweeper pass, the cancellation does not end
\* in an internal error, the record still exists with its other fields
\* intact, and its status is completed or cancelled.
C13_CancelAgainstSweep ==
  [][\A r \in inflight :
       (/\ r.caller = r.doc.user_id
        /\ r.status = "cancelled"
        /\ r.doc.status \in {"pending", "confirmed"}
        /\ r.doc.appointment_date < r.at
        /\ StatusEnd(r))
       => /\ last'.code # 500
          /\ \E b \in appointments' :
               /\ b.id = r.id
               /\ b.status \in {"completed", "cancelled"}
               /\ [b EXCEPT !.status = "", !.updated_at = 0]
                    = [r.doc EXCEPT !.status = "", !.updated_at = 0]]_vars

\* C14: in the running server every appointment that is pending or confirmed
\* with its start in the past is eventually completed, cancelled or deleted.
C14_PastDueEventuallyCompleted ==
  \A id \in AppointmentIds :
    (\E a \in appointments :
        /\ a.id = id
        /\ a.status \in {"pending", "confirmed"}
        /\ a.appointment_date < now)
    ~> (\A a \in appointments :
          a.id = id => a.status \in {"completed", "cancelled"})

\* C15: a field update of a pending or confirmed appointment that carries
\* only a new start date is answered 400 and changes nothing when the date is
\* not later than now, and otherwise succeeds and stores the new date,
\* whatever other appointments the venue has: no conflict check is run.
C15_RescheduleChecksOnlyFuture ==
  [][last'.op = "update" =>
      \A a \in appointments :
        a.status \in {"pending", "confirmed"}
        => \A caller \in {a.user_id, "admin"}, d \in Times :
             UpdateAppointment(caller, a.id, d, NoValue, "", NoNotes)
             => IF d <= now
                  THEN last'.code = 400 /\ appointments' = appointments
                  ELSE /\ last'.code = 200
                       /\ appointments' = (appointments \ {a}) \cup
                            {[a EXCEPT !.appointment_date = d, !.updated_at = now]}]_vars

\* C15 witness: an update succeeded and left two active appointments of one
\* venue with the same start, which no creation allows
C15_Witness ==
  /\ last.op = "update"
  /\ last.code = 200
  /\ \E a \in appointments, b \in appointments :
       /\ a.id # b.id
       /\ a.venue_id = b.venue_id
       /\ a.appointment_date = b.appointment_date
       /\ a.status \in {"pending", "confirmed"}
       /\ b.status \in {"pending", "confirmed"}
       /\ a.updated_at > b.updated_at

\* C18: a caller who neither owns an appointment nor is an admin is answered
\* 403 when reading, editing or deleting it; the record is not returned, not
\* changed and not removed.
C18_OnlyOwnerOrAdmin ==
  [][last'.op \in {"get", "update", "delete"} =>
      \/ /\ last'.code = 403
         /\ last'.data = {}
         /\ appointments' = appointments
      \/ \A a \in appointments :
           \A caller \in {u \in Users : u # a.user_id /\ u # "admin"} :
             /\ ~GetAppointment(caller, a.id)
             /\ ~DeleteAppointment(caller, a.id)
             /\ \A b \in OwnershipUpdates :
                  ~UpdateAppointment(caller, a.id, b.appointment_date,
                                     b.duration_hours, b.purpose, b.notes)]_vars

\* C18 witness: a read of an appointment was refused while appointments of
\* both users are stored
C18_Witness ==
  /\ last.op = "get"
  /\ last.code = 403
  /\ \E a \in appointments, b \in appointments :
       a.user_id = "u1" /\ b.user_id = "u2" /\ a.status = "pending"

\* C19: the list a non-admin gets holds only the caller's own appointments,
\* whatever filters the request carries, and the count reported is that of
\* the caller's own matching appointments; an admin gets the appointments of
\* every user, or of the user the user_id filter names.
C19_ListScopedToCaller ==
  [][last'.op = "list" =>
      LET caller == last'.req.caller
          q == last'.req.q
          scope == IF caller # "admin" THEN {a \in appointments : a.user_id = caller}
                   ELSE IF q.user_id # ""
                     THEN {a \in appointments : a.user_id = q.user_id}
                   ELSE appointments
          wanted == {a \in scope :
                       /\ q.venue_id = "" \/ a.venue_id = q.venue_id
                       /\ q.status \notin {"pending", "confirmed", "cancelled",
                                           "completed"} \/ a.status = q.status}
      IN
      /\ last'.data \subseteq wanted
      /\ last'.total = Cardinality(wanted)
      /\ (last'.req.page = 1 /\ last'.req.limit = DefaultLimit)
           => last'.data = wanted]_vars

\* C19 witness: u1 asked for the appointments of u2 and got only the one of
\* u1, while u2 has one as well
C19_Witness ==
  /\ last.op = "list"
  /\ last.req.caller = "u1"
  /\ last.req.q.user_id = "u2"
  /\ last.total = 1
  /\ \E a \in last.data : a.user_id = "u1"
  /\ \E b \in appointments : b.user_id = "u2"
  /\ Cardinality(appointments) = 2


\* C16: protect, whichever copy of it the router has loaded, passes a request
\* on to the route (with req.user the account of the token) exactly when the
\* header is "Bearer <token>", the token verifies and has not expired, and
\* its account exists and is active; every other request is answered 401.
ValidCredential(h) ==
  /\ h.scheme = "Bearer"
  /\ h.token # NoToken
  /\ h.token.sig = "good"
  /\ now < h.token.exp
  /\ users[h.token.id].exists
  /\ users[h.token.id].is_active

C16_GuardRejects ==
  \A g \in Guards, h \in Headers :
    IF ValidCredential(h)
      THEN Guard(g, h, now) = Passed(h.token.id)
      ELSE Guard(g, h, now).code = 401

\* C17: on a role-gated route (venue create, update, delete and restore, the
\* user management routes, dashboard statistics, the contact list) a request
\* that passed protect for an account whose role is not admin is answered
\* 403, and neither the users nor the venues change, whatever its body.
GatedOps ==
  {"createVenue", "updateVenue", "deleteVenue", "restoreVenue",
   "updateUser", "toggleActive", "deleteUser"} \cup AdminRoutes

C17_NonAdminRejected ==
  [][(/\ last'.op \in GatedOps
      /\ last'.req.caller # ""
      /\ Role(last'.req.caller) # "admin")
     => (last'.code = 403 /\ users' = users /\ venues' = venues)]_vars

\* C20 as stated: every POST /api/appointments that names a venue which does
\* not exist or is inactive is answered 404 and stores nothing, and every
\* appointment is inserted while its venue is active.
\* no venue has this id, or the venue's is_active flag is false
OutOfService(venue_id) ==
  \A v \in DOMAIN venues : v = venue_id => ~venues[v].is_active

InsertedNow == {a \in appointments' : a \notin appointments}

C21_RemovedOnlyByDelete ==
  [][\A a \in appointments :
       (\A b \in appointments' : b.id # a.id)
         => /\ last'.op = "delete"
            /\ last'.code = 200
            /\ \E caller \in Users :
                 /\ caller = a.user_id \/ users[caller].role = "admin"
                 /\ DeleteAppointment(caller, a.id)]_vars

\* an appointment was stored and a DELETE answered 200 has removed it
C21_Witness ==
  /\ last.op = "delete"
  /\ last.code = 200
  /\ nextId > 1
  /\ appointments = {}

\* C22: there is never more than one review of one user for one target, and
\* a POST /api/reviews with a valid body for an existing target the caller
\* has already reviewed is answered 400 "You have already reviewed this
\* item" and stores nothing, both when the handler's own lookup finds the
\* earlier review and when the insert of a request that passed the lookup is
\* refused by the unique index.
SameTarget(r, o) ==
  r.user_id = o.user_id /\ r.entity_type = o.entity_type /\ r.entity_id = o.entity_id

AlreadyReviewed(r) == \E o \in reviews : SameTarget(r, o)

RejectedAsReviewed ==
  /\ last'.code = 400
  /\ last'.msg = "You have already reviewed this item"
  /\ reviews' = reviews

MayChangeReview(caller, r) == caller = r.user_id \/ users[caller].role = "admin"

C23_ReviewOwnerOrAdmin ==
  [][\A caller \in Users, r \in reviews :
       /\ \/ ~UpdateReview(caller, r.id, 3, "fine!")
          \/ IF MayChangeReview(caller, r)
               THEN /\ last'.code = 200
                    /\ reviews' = (reviews \ {r})
                                    \cup {[r EXCEPT !.rating = 3, !.comment = "fine!"]}
               ELSE last'.code = 403 /\ reviews' = reviews
       /\ \/ ~DeleteReview(caller, r.id)
          \/ IF MayChangeReview(caller, r)
               THEN last'.code = 200 /\ reviews' = reviews \ {r}
               ELSE last'.code = 403 /\ reviews' = reviews]_vars

\* C24: PUT /api/blogs/:id with a valid body and DELETE /api/blogs/:id for a
\* stored post are answered 200, and update or unpublish that post, when the
\* caller is the account that created it or an admin; for every other caller
\* they are answered 403 and the posts are unchanged.
MayChangeBlog(caller, b) == caller = b.author_id.of \/ users[caller].role = "admin"

ValidBlogBody == [title |-> "Howdy", content |-> LongContent]

C24_BlogAuthorOrAdmin ==
  [][\A caller \in Users, b \in blogs :
       /\ \/ ~UpdateBlog(caller, b.id, ValidBlogBody)
          \/ IF MayChangeBlog(caller, b)
               THEN /\ last'.code = 200
                    /\ blogs' = (blogs \ {b})
                                  \cup {[b EXCEPT !.title = ValidBlogBody.title,
                                                  !.content = ValidBlogBody.content]}
               ELSE last'.code = 403 /\ blogs' = blogs
       /\ \/ ~DeleteBlog(caller, b.id)
          \/ IF MayChangeBlog(caller, b)
               THEN /\ last'.code = 200
                    /\ blogs' = (blogs \ {b}) \cup {[b EXCEPT !.is_published = FALSE]}
               ELSE last'.code = 403 /\ blogs' = blogs]_vars

\* C25: no two accounts have the same email, and a registration whose email
\* is already registered creates no account and is answered 400, both when
\* the handler's lookup finds the account and when the insert of a request
\* that passed the lookup meets it.
Registered(email) == \E a \in accounts : a.email = Lowercase(email)

C25_EmailUnique ==
  [][/\ \A a \in accounts', o \in accounts' : a.email = o.email => a = o
     /\ \A router \in AuthRouters, body \in RegisterBodies :
          \/ ~Registered(body.email)
          \/ ~RegisterBegin(router, body)
          \/ (last'.code = 400 /\ accounts' = accounts /\ inflight' = inflight)
     /\ \A r \in inflight :
          \/ ~Registered(r.email)
          \/ ~RegisterEnd(r)
          \/ (last'.code = 400 /\ accounts' = accounts)]_vars

\* C26 as stated: DELETE /api/venues/:id by an admin keeps the venue
\* document, sets only its is_active to false and leaves the appointments
\* alone; while the venue is inactive every POST /api/appointments naming it
\* is answered 404.
SoftDeleted(id) ==
  /\ DOMAIN venues' = DOMAIN venues
  /\ \A v \in DOMAIN venues :
       venues'[v] = IF v = id THEN [venues[v] EXCEPT !.is_active = FALSE] ELSE venues[v]
  /\ appointments' = appointments

StoredAsBooked(doc, caller, body) ==
  /\ doc.status = "pending"
  /\ doc.user_id = caller
  /\ doc.venue_name = venues[body.venue_id].name
  /\ body.duration = NoValue => doc.duration_hours = 1

C28_StoredFromCallerAndVenue ==
  [][\A caller \in {"u1", "u2"}, body \in PostBodies :
       (last'.code = 201 /\ PostAppointment(caller, body))
         => /\ appointments' # appointments
            /\ \A doc \in appointments' \ appointments :
                 StoredAsBooked(doc, caller, body)]_vars

\* a booking without duration_hours made after the venue was renamed is stored
\* as pending with the new name and a duration of 1
C28_Witness ==
  /\ last.op = "create" /\ last.code = 201
  /\ \E doc \in appointments :
       /\ doc.status = "pending" /\ doc.venue_name = "Gym"
       /\ doc.duration_hours = 1 /\ doc.user_id = "u2"

\* C30: through the user-management endpoints an admin never deactivates or
\* deletes their own account: PUT /users/:id with is_active false,
\* PUT /users/:id/toggle-active and DELETE /users/:id on the caller's own id
\* are answered 400 and leave the caller's account as it was.
SelfRequest(h, id) ==
  /\ h.token # NoToken
  /\ h.token.id = id
  /\ users[id].exists /\ users[id].role = "admin"

C30_NoSelfDeactivation ==
  [][\A router \in UserRouters, g \in Guards, h \in SelfHeaders, id \in SelfTargets :
       SelfRequest(h, id) /\ Guard(g, h, now).code = 0
         => /\ \A body \in SelfBodies :
                 UpdateUser(router, g, h, id, body)
                   => /\ users'[id].exists
                      /\ users[id].is_active => users'[id].is_active
                      /\ body.is_active = "false"
                           => (last'.code = 400 /\ users'[id] = users[id])
            /\ (ToggleActive(router, g, h, id) \/ DeleteUser(router, g, h, id))
                 => (last'.code = 400 /\ users'[id] = users[id])]_vars

\* C29: a request to POST /appointments, PUT /appointments/:id,
\* PUT /appointments/:id/status or DELETE /appointments/:id that is answered
\* 400, 401, 403 or 404 leaves the stored appointments, every updated_at
\* included, exactly as they were.
ErrorStatuses == {400, 401, 403, 404}

AppointmentRequest(h) ==
  \/ \E b \in BookingBodies : ProtectedCreate(h, b)
  \/ \E id \in AppointmentIds, b \in BookingUpdates : ProtectedUpdate(h, id, b)
  \/ \E id \in AppointmentIds, status \in ProtectedStatuses :
       ProtectedStatus(h, id, status)
  \/ \E id \in AppointmentIds : ProtectedDelete(h, id)

C29_ErrorsChangeNothing ==
  [][\/ appointments' = appointments
     \/ last'.code \notin ErrorStatuses
     \/ \A h \in ProtectedHeaders : ~AppointmentRequest(h)]_vars

\* a request was refused while an appointment saved at an earlier time is
\* stored, which a save would have stamped anew
C29_Witness ==
  /\ last.op \in {"update", "status", "delete"}
  /\ last.code \in {400, 403}
  /\ \E a \in appointments : a.updated_at < now

====
